---- MODULE Spec2Model ----
(***************************************************************************)
(* A model of apinator: the PathStr path algebra (common.py), the Request  *)
(* descriptor and its with_options overlay (common.py), the connection's   *)
(* request/process_response hooks (api.py), and the endpoint call and      *)
(* endpoint-group binding protocol (endpoint.py).                          *)
(*                                                                         *)
(* A Python str is modelled as a sequence of characters; a character is a  *)
(* TLA+ string, and "/" is the path separator.  A str-keyed dict is a      *)
(* function whose DOMAIN is its key set.                                   *)
(***************************************************************************)
EXTENDS Integers, Sequences, FiniteSets, TLC

VARIABLES
    pa, pb, pc,         \* PathStr area: the three operands of a composition
    pleft, pright,      \* (a / b) / c and a / (b / c), once evaluated
    pshown,             \* the renderings str(.) of every segment built so far
    dicts,              \* Request area: the heap of dict objects, by identity
    reqs,               \* the Request objects, by identity; fields refer to dicts
    rlast,              \* the last with_options call: receiver, arguments, outcome
    rcalls,             \* the number of with_options calls made
    idict,              \* Binding area: instance.__dict__[name] per connection instance
    bgs,                \* the BoundEndpointGroup objects built, per instance and name
    blast,              \* the last read api.<name> (sequential reads)
    balast,             \* the last read <item> of the bound group just read
    installs,           \* every bound group ever stored in an instance.__dict__
    tpc, treq, tlocal, tret, \* the reader threads: position, (instance, name), locals
    cin,                \* Call area: the call's connection, endpoint and arguments
    cpc,                \* the position of Endpoint.__call__
    cerr,               \* the exception the call raised, if any
    cpool,              \* url_args
    cquery,             \* query
    creq,               \* request
    cresp,              \* the transport's response
    cres,               \* the value the call returned
    clog                \* the steps the call has completed, in order

pathVars == <<pa, pb, pc, pleft, pright, pshown>>
reqVars == <<dicts, reqs, rlast, rcalls>>
bindVars == <<idict, bgs, blast, balast, installs, tpc, treq, tlocal, tret>>
callVars == <<cin, cpc, cerr, cpool, cquery, creq, cresp, cres, clog>>
vars == <<pathVars, reqVars, bindVars, callVars>>
notPathVars == <<reqVars, bindVars, callVars>>
notReqVars == <<pathVars, bindVars, callVars>>
notBindVars == <<pathVars, reqVars, callVars>>
notCallVars == <<pathVars, reqVars, bindVars>>

None == "None"

\* Python values are records tagged with their type in "kind".
NoPath == [kind |-> "None", s |-> <<>>]
PathTypeError == [kind |-> "TypeError", s |-> <<>>]

\* dict values
EmptyMap == [k \in {} |-> 0]

NoCall ==
    [recv |-> 0, kw |-> [hasQuery |-> FALSE, query |-> EmptyMap, hasHeaders |-> FALSE,
                         headers |-> [k \in {"h"} |-> 1], hasBody |-> FALSE, body |-> "B"],
     argQ |-> 0, argH |-> 0, err |-> FALSE, result |-> 0]

\* endpoint values
NoDefn == [name |-> "", url |-> NoPath, method |-> "", arg_names |-> <<>>,
           default_query |-> EmptyMap, response_model |-> None, body_model |-> None]
NoEndpoint == [api |-> 0, defn |-> NoDefn]
\* A reference to a BoundEndpointGroup object: the k-th one built for
\* (instance, name).
NoRef == [inst |-> 0, name |-> "", k |-> 0]
NoRead == [inst |-> 0, name |-> "", ret |-> NoRef, built |-> FALSE]
NoAttr == [bg |-> NoRef, item |-> "", out |-> "", endpoint |-> NoEndpoint]

\* call values
NoErr == [kind |-> "", at |-> "", names |-> {}]
NoInput == [conn |-> 0, ep |-> "", args |-> <<>>, kwargs |-> {}, hasQuery |-> FALSE,
            query |-> EmptyMap, body |-> None]
NoReq == [scheme |-> None, host |-> None, path |-> NoPath, method |-> None,
          query |-> EmptyMap, headers |-> EmptyMap, body |-> None,
          append_trailing_slash |-> FALSE]
NoResp == [status |-> 0, json |-> FALSE]
NoRes == [kind |-> "", status |-> 0]

(***************************************************************************)
(* Bounds.                                                                 *)
(***************************************************************************)
MaxLen == 2
MaxCalls == 2
MaxInst == 2
MaxThreads == 2
MaxArgs == 3

(***************************************************************************)
(* common.py: PathStr                                                      *)
(***************************************************************************)
Sep == "/"
Chars == {Sep, "x"}
StrsUpTo(n) == UNION {[1..k -> Chars] : k \in 0..n}

RECURSIVE lstrip(_)
lstrip(s) == IF s # <<>> /\ Head(s) = Sep THEN lstrip(Tail(s)) ELSE s

RECURSIVE rstrip(_)
rstrip(s) == IF s # <<>> /\ s[Len(s)] = Sep THEN rstrip(SubSeq(s, 1, Len(s) - 1)) ELSE s

\* A slip of clean_str: only the leading separators are removed.
clean_str_lstrip_only(s) == lstrip(s)

\* values["__root__"].strip("/")
clean_str(s) == rstrip(lstrip(s))

\* A PathStr instance holds its validated root; a raw str operand holds the
\* text as written.
PathStr(s) == [kind |-> "PathStr", s |-> clean_str(s)]
RawStr(s) == [kind |-> "str", s |-> s]

\* PathStr.parse_obj(other): a str or a PathStr is validated into a PathStr.
parse_obj(other) == PathStr(other.s)

\* __str__
PathStr_str(p) == <<Sep>> \o p.s

\* __truediv__: self / other
PathStr_truediv(self, other) == PathStr(self.s \o <<Sep>> \o parse_obj(other).s)

\* __rtruediv__: other / self
PathStr_rtruediv(self, other) == PathStr(parse_obj(other).s \o <<Sep>> \o self.s)

\* The expression a / b: Python asks the left operand first, then the right
\* one's reflected method; str / str has neither and raises TypeError.
Div(a, b) ==
    IF a.kind = "TypeError" \/ b.kind = "TypeError" THEN PathTypeError
    ELSE IF a.kind = "PathStr" THEN PathStr_truediv(a, b)
    ELSE IF b.kind = "PathStr" THEN PathStr_rtruediv(b, a)
    ELSE PathTypeError

Operands == {PathStr(s) : s \in StrsUpTo(MaxLen)} \cup {RawStr(s) : s \in StrsUpTo(MaxLen)}

PathInit ==
    /\ dicts = <<>> /\ reqs = <<>> /\ rlast = NoCall /\ rcalls = 0
    /\ idict = <<>> /\ bgs = <<>> /\ blast = NoRead /\ balast = NoAttr /\ installs = {}
    /\ tpc = <<>> /\ treq = <<>> /\ tlocal = <<>> /\ tret = <<>>
    /\ cin = NoInput /\ cpc = "idle" /\ cerr = NoErr /\ cpool = EmptyMap /\ cquery = EmptyMap
    /\ creq = NoReq /\ cresp = NoResp /\ cres = NoRes /\ clog = <<>>
    /\ pa \in Operands
    /\ pb \in Operands
    /\ pc \in Operands
    /\ pleft = NoPath
    /\ pright = NoPath
    /\ pshown = {}

Shown(v) == IF v.kind = "TypeError" THEN {} ELSE {PathStr_str(v)}

\* (a / b) / c
ComposeLeft ==
    /\ pleft = NoPath
    /\ pleft' = Div(Div(pa, pb), pc)
    /\ pshown' = pshown \cup Shown(Div(pa, pb)) \cup Shown(Div(Div(pa, pb), pc))
    /\ UNCHANGED <<pa, pb, pc, pright, notPathVars>>

\* a / (b / c)
ComposeRight ==
    /\ pright = NoPath
    /\ pright' = Div(pa, Div(pb, pc))
    /\ pshown' = pshown \cup Shown(Div(pb, pc)) \cup Shown(Div(pa, Div(pb, pc)))
    /\ UNCHANGED <<pa, pb, pc, pleft, notPathVars>>

\* PathStr(__root__=s) for each operand's text, rendered
Construct ==
    /\ pshown' = pshown \cup {PathStr_str(PathStr(o.s)) : o \in {pa, pb, pc}}
    /\ pshown' # pshown
    /\ UNCHANGED <<pa, pb, pc, pleft, pright, notPathVars>>

PathNext == ComposeLeft \/ ComposeRight \/ Construct

SpecPath == PathInit /\ [][PathNext]_vars

(***************************************************************************)
(* C10: composition is associative, for PathStr or raw-string operands     *)
(* (empty, or carrying leading or trailing separators) wherever both       *)
(* groupings are defined; and the rendering of every constructed or        *)
(* composed segment starts with exactly one separator and has no trailing  *)
(* separator, the empty segment rendering as just the separator.           *)
(***************************************************************************)
WellRendered(r) ==
    /\ Len(r) >= 1
    /\ r[1] = Sep
    /\ Len(r) > 1 => (r[2] # Sep /\ r[Len(r)] # Sep)

C10_ComposeAssociativeAndRendered ==
    /\ (pleft.kind = "PathStr" /\ pright.kind = "PathStr") => pleft = pright
    /\ \A r \in pshown : WellRendered(r)

C10_Witness ==
    /\ pa = RawStr(<<"x", Sep>>)
    /\ pb = PathStr(<<>>)
    /\ pc = RawStr(<<Sep, "x">>)
    /\ pleft.kind = "PathStr"
    /\ pleft = pright
    /\ pleft.s = <<"x", Sep, "x">>
    /\ <<Sep>> \in pshown

(***************************************************************************)
(* common.py: Request and with_options                                     *)
(***************************************************************************)
\* {**a, **b}: every key of either, b's value where both have the key
Overlay(a, b) ==
    [k \in (DOMAIN a) \cup (DOMAIN b) |-> IF k \in DOMAIN b THEN b[k] ELSE a[k]]

\* dict(**a, **b): a keyword given twice is a TypeError
dict_kw(a, b) ==
    IF (DOMAIN a) \cap (DOMAIN b) # {}
    THEN [err |-> TRUE, d |-> EmptyMap]
    ELSE [err |-> FALSE, d |-> Overlay(a, b)]

\* A slip of _modify_query/_modify_headers: the current dict is updated in
\* place and handed back, instead of a new dict being built.
modify_in_place(heap, cur, extra) ==
    [err |-> FALSE, heap |-> [heap EXCEPT ![cur] = Overlay(heap[cur], heap[extra])], id |-> cur]

\* _modify_query / _modify_headers: dict(**(current or {}), **extra), a new
\* dict object; heap is the dict heap, cur and extra are dict identities.
modify_dict(heap, cur, extra) ==
    LET m == dict_kw(heap[cur], heap[extra])
    IN  IF m.err THEN [err |-> TRUE, heap |-> heap, id |-> 0]
        ELSE [err |-> FALSE, heap |-> Append(heap, m.d), id |-> Len(heap) + 1]

QKeys == {"a", "b"}
QVals == {1, 2, 3}
\* The override mappings a caller passes: empty, or one key.
QueryArgs == {EmptyMap} \cup {[k \in {key} |-> v] : key \in QKeys, v \in QVals}
HeaderArgs == {[k \in {"h"} |-> 1]}
BodyArgs == {"B"}
Kwargs ==
    [hasQuery : BOOLEAN, query : QueryArgs,
     hasHeaders : BOOLEAN, headers : HeaderArgs,
     hasBody : BOOLEAN, body : BodyArgs]
\* One record per distinct call: an absent keyword carries a fixed filler.
NormalKw(kw) ==
    /\ (~kw.hasQuery) => kw.query = EmptyMap
    /\ (kw.hasHeaders \/ kw.hasQuery \/ kw.hasBody)

\* Request(query=q0): query and headers are dicts of the new object's own.
ReqInit ==
    /\ pa = NoPath /\ pb = NoPath /\ pc = NoPath
    /\ pleft = NoPath /\ pright = NoPath /\ pshown = {}
    /\ idict = <<>> /\ bgs = <<>> /\ blast = NoRead /\ balast = NoAttr /\ installs = {}
    /\ tpc = <<>> /\ treq = <<>> /\ tlocal = <<>> /\ tret = <<>>
    /\ cin = NoInput /\ cpc = "idle" /\ cerr = NoErr /\ cpool = EmptyMap /\ cquery = EmptyMap
    /\ creq = NoReq /\ cresp = NoResp /\ cres = NoRes /\ clog = <<>>
    /\ \E q0 \in {EmptyMap, [k \in {"a"} |-> 1]} : dicts = <<q0, EmptyMap>>
    /\ reqs = <<[query |-> 1, headers |-> 2, body |-> None]>>
    /\ rlast = NoCall
    /\ rcalls = 0

\* r.with_options(**kw).  The caller's override dicts are objects of the heap
\* (argQ, argH).  new_request = self.copy() shares the receiver's field
\* values; each keyword is then merged (query, headers) or assigned (body).
WithOptions(r, kw) ==
    LET h0 == IF kw.hasQuery THEN Append(dicts, kw.query) ELSE dicts
        argQ == IF kw.hasQuery THEN Len(h0) ELSE 0
        h1 == IF kw.hasHeaders THEN Append(h0, kw.headers) ELSE h0
        argH == IF kw.hasHeaders THEN Len(h1) ELSE 0
        self == reqs[r]
        mq == IF kw.hasQuery THEN modify_dict(h1, self.query, argQ)
              ELSE [err |-> FALSE, heap |-> h1, id |-> self.query]
        mh == IF mq.err THEN mq
              ELSE IF kw.hasHeaders THEN modify_dict(mq.heap, self.headers, argH)
              ELSE [err |-> FALSE, heap |-> mq.heap, id |-> self.headers]
        new_request == [query |-> mq.id, headers |-> mh.id,
                        body |-> IF kw.hasBody THEN kw.body ELSE self.body]
    IN  IF mh.err
        THEN /\ dicts' = h1
             /\ reqs' = reqs
             /\ rlast' = [recv |-> r, kw |-> kw, argQ |-> argQ, argH |-> argH,
                          err |-> TRUE, result |-> 0]
        ELSE /\ dicts' = mh.heap
             /\ reqs' = Append(reqs, new_request)
             /\ rlast' = [recv |-> r, kw |-> kw, argQ |-> argQ, argH |-> argH,
                          err |-> FALSE, result |-> Len(reqs) + 1]

CallWithOptions ==
    /\ rcalls < MaxCalls
    /\ rcalls' = rcalls + 1
    /\ \E r \in 1..Len(reqs) : \E kw \in Kwargs : NormalKw(kw) /\ WithOptions(r, kw)
    /\ UNCHANGED notReqVars

ReqNext == CallWithOptions

SpecReq == ReqInit /\ [][ReqNext]_vars

(***************************************************************************)
(* C1: with_options(query=m) / with_options(headers=m) returns a request   *)
(* whose mapping holds the receiver's keys absent from m with their old    *)
(* values and every key of m with m's value, also when m and the           *)
(* receiver's mapping share a key.                                         *)
(***************************************************************************)
C1_OverlayKeepsOldAndOverrideWins ==
    /\ rlast.kw.hasQuery =>
          /\ ~rlast.err
          /\ dicts[reqs[rlast.result].query] = Overlay(dicts[reqs[rlast.recv].query], rlast.kw.query)
    /\ rlast.kw.hasHeaders =>
          /\ ~rlast.err
          /\ dicts[reqs[rlast.result].headers] = Overlay(dicts[reqs[rlast.recv].headers], rlast.kw.headers)

(***************************************************************************)
(* C7: with_options never mutates: across every call each existing Request *)
(* keeps every field, each existing dict keeps its contents, and the       *)
(* override dicts passed in hold afterwards what the caller passed.        *)
(***************************************************************************)
C7_Frame ==
    /\ \A i \in 1..Len(reqs) : i <= Len(reqs') /\ reqs'[i] = reqs[i]
    /\ \A d \in 1..Len(dicts) : d <= Len(dicts') /\ dicts'[d] = dicts[d]
    /\ rlast'.kw.hasQuery => dicts'[rlast'.argQ] = rlast'.kw.query
    /\ rlast'.kw.hasHeaders => dicts'[rlast'.argH] = rlast'.kw.headers

C7_WithOptionsNeverMutates == [][C7_Frame]_vars

C7_Witness ==
    /\ Len(reqs) = 3
    /\ ~rlast.err
    /\ rlast.recv = 2
    /\ dicts[reqs[1].query] = EmptyMap
    /\ dicts[reqs[2].query] = [k \in {"a"} |-> 1]
    /\ dicts[reqs[3].query] = [k \in {"a", "b"} |-> IF k = "a" THEN 1 ELSE 2]
    /\ reqs[3].query # reqs[2].query

(***************************************************************************)
(* endpoint.py: EndpointAction, EndpointGroup, BoundEndpointGroup          *)
(***************************************************************************)
\* A field typed Union[PathStr, str]: the value is validated as a PathStr.
UrlField(v) == parse_obj(v)

\* EndpointAction(...): url defaults to PathStr(__root__=""), arg_names to ().
EndpointAction(action_name, method, url, arg_names, response_model, body_model) ==
    [action_name |-> action_name, url |-> UrlField(url), method |-> method,
     arg_names |-> arg_names, default_query |-> EmptyMap,
     response_model |-> response_model, body_model |-> body_model]

DefaultUrl == PathStr(<<>>)
IdUrl == RawStr(<<Sep, "{id}">>)

\* The standard constructors, as written in the source.
ActionList == EndpointAction("list", "GET", DefaultUrl, <<>>, "Model", None)
ActionCreate == EndpointAction("create", "POST", DefaultUrl, <<>>, None, "Model")
ActionRetrieve == EndpointAction("retrieve", "GET", IdUrl, <<"id">>, "Model", None)
ActionHead == EndpointAction("head", "HEAD", IdUrl, <<"id">>, None, None)
ActionUpdate == EndpointAction("update", "PUT", DefaultUrl, <<>>, None, "Model")
ActionPartialUpdate == EndpointAction("partial_update", "PATCH", DefaultUrl, <<>>, None, "Model")
ActionDestroy == EndpointAction("destroy", "DELETE", DefaultUrl, <<>>, None, None)

StandardActions ==
    {ActionList, ActionCreate, ActionRetrieve, ActionHead, ActionUpdate,
     ActionPartialUpdate, ActionDestroy}

\* create_endpoint_definition(url_prefix, url_args)
create_endpoint_definition(action, url_prefix, url_args) ==
    [name |-> action.action_name,
     url |-> UrlField(Div(url_prefix, action.url)),
     response_model |-> action.response_model,
     body_model |-> action.body_model,
     method |-> action.method,
     arg_names |-> url_args \o action.arg_names,
     default_query |-> action.default_query]

\* create_endpoint(api, *args)
create_endpoint(action, api, url_prefix, url_args) ==
    [defn |-> create_endpoint_definition(action, url_prefix, url_args), api |-> api]

\* EndpointGroup(url, actions, arg_names): actions keyed by action_name.
EndpointGroup(url, actions, arg_names) ==
    [url |-> parse_obj(url),
     actions |-> [n \in {a.action_name : a \in actions} |->
                     CHOOSE a \in actions : a.action_name = n],
     arg_names |-> arg_names]

\* The groups declared on the API class: the tests' "objects", and a group
\* with a shared positional argument.
GroupNames == {"objects", "tables"}
Declared(name) ==
    IF name = "objects"
    THEN EndpointGroup(RawStr(<<Sep, "object">>), StandardActions, <<>>)
    ELSE EndpointGroup(RawStr(<<Sep, "db", Sep, "{db}", Sep, "table", Sep>>),
                       {ActionList, ActionRetrieve, ActionDestroy}, <<"db">>)

Insts == 1..MaxInst
Threads == 1..MaxThreads

\* BoundEndpointGroup.__init__; attrs are the names later set on the object.
BoundEndpointGroup(api, name) ==
    LET group == Declared(name)
    IN  [api |-> api,
         group |-> name,
         endpoints |-> [n \in DOMAIN group.actions |->
                           create_endpoint(group.actions[n], api, group.url, group.arg_names)],
         attrs |-> {}]

Deref(ref) == bgs[ref.inst][ref.name][ref.k]

\* A slip of __get__: the bound group is built and returned but not stored.
EndpointGroup_get_not_stored(heap, d, instance, name) ==
    LET ref == [inst |-> instance, name |-> name, k |-> Len(heap[instance][name]) + 1]
    IN  [heap |-> [heap EXCEPT ![instance][name] = Append(@, BoundEndpointGroup(instance, name))],
         dict |-> d,
         ret |-> ref]

\* EndpointGroup.__get__(instance, owner) with instance not None: build the
\* bound group, store it in instance.__dict__[self.name], return it.
\* heap is bgs, d is instance.__dict__.
EndpointGroup_get(heap, d, instance, name) ==
    LET ref == [inst |-> instance, name |-> name, k |-> Len(heap[instance][name]) + 1]
    IN  [heap |-> [heap EXCEPT ![instance][name] = Append(@, BoundEndpointGroup(instance, name))],
         dict |-> [d EXCEPT ![name] = ref],
         ret |-> ref]

BindInit ==
    /\ pa = NoPath /\ pb = NoPath /\ pc = NoPath
    /\ pleft = NoPath /\ pright = NoPath /\ pshown = {}
    /\ dicts = <<>> /\ reqs = <<>> /\ rlast = NoCall /\ rcalls = 0
    /\ cin = NoInput /\ cpc = "idle" /\ cerr = NoErr /\ cpool = EmptyMap /\ cquery = EmptyMap
    /\ creq = NoReq /\ cresp = NoResp /\ cres = NoRes /\ clog = <<>>
    /\ idict = [i \in Insts |-> [g \in GroupNames |-> NoRef]]
    /\ bgs = [i \in Insts |-> [g \in GroupNames |-> <<>>]]
    /\ blast = NoRead
    /\ balast = NoAttr
    /\ installs = {}
    /\ tpc = [t \in Threads |-> "idle"]
    /\ treq = [t \in Threads |-> [inst |-> 0, name |-> ""]]
    /\ tlocal = [t \in Threads |-> NoRef]
    /\ tret = [t \in Threads |-> NoRef]

\* api.<name>, read by one thread at a time.  EndpointGroup defines __get__
\* and no __set__, so an entry of instance.__dict__ shadows the descriptor.
ReadGroup(i, g) ==
    IF idict[i][g] # NoRef
    THEN /\ blast' = [inst |-> i, name |-> g, ret |-> idict[i][g], built |-> FALSE]
         /\ UNCHANGED <<idict, bgs, installs>>
    ELSE LET r == EndpointGroup_get(bgs, idict[i], i, g)
         IN  /\ bgs' = r.heap
             /\ idict' = [idict EXCEPT ![i] = r.dict]
             /\ installs' = installs \cup {r.dict[g]}
             /\ blast' = [inst |-> i, name |-> g, ret |-> r.ret, built |-> TRUE]

Read ==
    /\ \E i \in Insts : \E g \in GroupNames : ReadGroup(i, g)
    /\ balast' = NoAttr
    /\ UNCHANGED <<tpc, treq, tlocal, tret, notBindVars>>

\* Attributes every BoundEndpointGroup object holds without __getattr__:
\* its own (_group, _endpoints, names set on it) and its class's.
ObjectAttrs == {"__init__", "__getattr__", "__class__", "__doc__"}
HeldAttrs(bg) == {"_group", "_endpoints"} \cup bg.attrs \cup ObjectAttrs

\* Attributes of type(self._group), the EndpointGroup class, that a
\* BoundEndpointGroup does not hold itself: its methods, and the class's name.
GroupClassCallables == {"__get__", "__set_name__"}
GroupClassOthers == {"__name__"}

\* A slip of __getattr__: the fallback is tried first, the endpoints last.
BoundEndpointGroup_getattr_fallback_first(bg, item) ==
    IF item \in GroupClassCallables
    THEN [out |-> "partial", endpoint |-> NoEndpoint, attrs |-> bg.attrs \cup {item}]
    ELSE [out |-> "AttributeError", endpoint |-> NoEndpoint, attrs |-> bg.attrs]

\* BoundEndpointGroup.__getattr__(item)
BoundEndpointGroup_getattr(bg, item) ==
    IF item \in DOMAIN bg.endpoints
    THEN [out |-> "Endpoint", endpoint |-> bg.endpoints[item], attrs |-> bg.attrs]
    ELSE IF item \in GroupClassCallables
    THEN [out |-> "partial", endpoint |-> NoEndpoint, attrs |-> bg.attrs \cup {item}]
    ELSE IF item \in GroupClassOthers
    THEN [out |-> "TypeError", endpoint |-> NoEndpoint, attrs |-> bg.attrs]
    ELSE [out |-> "AttributeError", endpoint |-> NoEndpoint, attrs |-> bg.attrs]

Items == {"retrieve", "get", "url", "__get__", "__name__", "_endpoints"}

\* api.<name>.<item>, on the bound group the last read returned: __getattr__
\* runs only when the normal lookup fails.
GetAttr ==
    /\ blast.ret # NoRef
    /\ \E item \in Items :
         LET ref == blast.ret
             bg == Deref(ref)
         IN  IF item \in HeldAttrs(bg)
             THEN /\ balast' = [bg |-> ref, item |-> item, out |-> "held",
                                endpoint |-> NoEndpoint]
                  /\ bgs' = bgs
             ELSE LET r == BoundEndpointGroup_getattr(bg, item)
                  IN  /\ balast' = [bg |-> ref, item |-> item, out |-> r.out,
                                    endpoint |-> r.endpoint]
                      /\ bgs' = [bgs EXCEPT ![ref.inst][ref.name][ref.k].attrs = r.attrs]
    /\ UNCHANGED <<idict, blast, installs, tpc, treq, tlocal, tret, notBindVars>>

BindNext == Read \/ GetAttr

SpecBind == BindInit /\ [][BindNext]_vars

\* Concurrent first reads: the interpreter may switch threads between the
\* failed instance.__dict__ lookup, the construction (line 253) and the
\* store (line 254).
T_Lookup(t) ==
    /\ tpc[t] \in {"idle", "done"}
    /\ \E i \in Insts : \E g \in GroupNames :
         /\ treq' = [treq EXCEPT ![t] = [inst |-> i, name |-> g]]
         /\ IF idict[i][g] # NoRef
            THEN /\ tret' = [tret EXCEPT ![t] = idict[i][g]]
                 /\ tpc' = [tpc EXCEPT ![t] = "done"]
            ELSE /\ tret' = [tret EXCEPT ![t] = NoRef]
                 /\ tpc' = [tpc EXCEPT ![t] = "get"]
    /\ tlocal' = [tlocal EXCEPT ![t] = NoRef]
    /\ UNCHANGED <<idict, bgs, blast, balast, installs, notBindVars>>

\* bound_group = BoundEndpointGroup(api=instance, group=self)
T_Construct(t) ==
    /\ tpc[t] = "get"
    /\ LET i == treq[t].inst
           g == treq[t].name
           r == EndpointGroup_get(bgs, idict[i], i, g)
       IN  /\ bgs' = r.heap
           /\ tlocal' = [tlocal EXCEPT ![t] = r.ret]
    /\ tpc' = [tpc EXCEPT ![t] = "built"]
    /\ UNCHANGED <<idict, blast, balast, installs, treq, tret, notBindVars>>

\* instance.__dict__[self.name] = bound_group; return bound_group
T_Install(t) ==
    /\ tpc[t] = "built"
    /\ LET i == treq[t].inst
           g == treq[t].name
       IN  idict' = [idict EXCEPT ![i][g] = tlocal[t]]
    /\ installs' = installs \cup {tlocal[t]}
    /\ tret' = [tret EXCEPT ![t] = tlocal[t]]
    /\ tpc' = [tpc EXCEPT ![t] = "done"]
    /\ UNCHANGED <<bgs, blast, balast, treq, tlocal, notBindVars>>

BindConcNext == \E t \in Threads : T_Lookup(t) \/ T_Construct(t) \/ T_Install(t)

SpecBindConc == BindInit /\ [][BindConcNext]_vars

(***************************************************************************)
(* C2: per connection instance and declared group name, under sequential   *)
(* reads: the first read installs one BoundEndpointGroup; every later read *)
(* returns that same group without rebuilding (no way back to Unbound);    *)
(* different instances get distinct groups whose endpoints are bound to    *)
(* their own instance; a read through one instance leaves the others'      *)
(* state alone.                                                            *)
(***************************************************************************)
C2_Bound ==
    /\ \A i \in Insts : \A g \in GroupNames :
         idict[i][g] # NoRef =>
            /\ Len(bgs[i][g]) = 1
            /\ Deref(idict[i][g]).api = i
            /\ Deref(idict[i][g]).group = g
            /\ \A n \in DOMAIN Deref(idict[i][g]).endpoints :
                 Deref(idict[i][g]).endpoints[n].api = i
            /\ \A j \in Insts \ {i} : idict[j][g] # idict[i][g]
    /\ blast.inst # 0 => blast.ret = idict[blast.inst][blast.name]

C2_ReadStep ==
    /\ \A i \in Insts : \A g \in GroupNames :
         idict[i][g] # NoRef => idict'[i][g] = idict[i][g] /\ Len(bgs'[i][g]) = Len(bgs[i][g])
    /\ blast' # blast =>
         /\ \A j \in Insts \ {blast'.inst} : idict'[j] = idict[j] /\ bgs'[j] = bgs[j]
         /\ IF idict[blast'.inst][blast'.name] = NoRef
            THEN /\ blast'.built
                 /\ idict'[blast'.inst][blast'.name] = blast'.ret
                 /\ Len(bgs'[blast'.inst][blast'.name]) = 1
            ELSE /\ ~blast'.built
                 /\ blast'.ret = idict[blast'.inst][blast'.name]
                 /\ bgs' = bgs

C2_BindOncePerInstance == [](C2_Bound) /\ [][C2_ReadStep]_vars

C2_Witness ==
    /\ idict[1]["objects"] # NoRef
    /\ idict[2]["objects"] # NoRef
    /\ idict[1]["objects"] # idict[2]["objects"]
    /\ blast = [inst |-> 1, name |-> "objects", ret |-> idict[1]["objects"], built |-> FALSE]

(***************************************************************************)
(* C3: when threads race on the first read of one name through one         *)
(* instance, at most one BoundEndpointGroup is ever installed for it, and  *)
(* every reader that has returned holds the group that is cached.          *)
(***************************************************************************)
C3_AtMostOneInstalled ==
    /\ \A i \in Insts : \A g \in GroupNames :
         Cardinality({r \in installs : r.inst = i /\ r.name = g}) <= 1
    /\ \A t \in Threads :
         tpc[t] = "done" => tret[t] = idict[treq[t].inst][treq[t].name]

(***************************************************************************)
(* C5: the standard constructors fix method, url suffix and arg_names:     *)
(* retrieve, update, partial_update, destroy and head give suffix {id} and *)
(* arg_names ["id"] (definition url P/{id}, arg_names shared + id); list   *)
(* and create give the bare group url and no extra arg_names.              *)
(***************************************************************************)
DetailActions == {"retrieve", "update", "partial_update", "destroy", "head"}
MethodOf(n) ==
    CASE n = "list" -> "GET" [] n = "create" -> "POST" [] n = "retrieve" -> "GET"
      [] n = "head" -> "HEAD" [] n = "update" -> "PUT" [] n = "partial_update" -> "PATCH"
      [] n = "destroy" -> "DELETE"

C5_StandardActionsFixUrlAndArgs ==
    \A i \in Insts : \A g \in GroupNames : \A k \in 1..Len(bgs[i][g]) :
      \A n \in DOMAIN bgs[i][g][k].endpoints :
        LET d == bgs[i][g][k].endpoints[n].defn
            a == Declared(g).actions[n]
            P == Declared(g)
        IN  /\ d.method = MethodOf(n)
            /\ IF n \in DetailActions
               THEN /\ a.url = PathStr(<<"{id}">>)
                    /\ a.arg_names = <<"id">>
                    /\ d.url = PathStr(P.url.s \o <<Sep, "{id}">>)
                    /\ d.arg_names = P.arg_names \o <<"id">>
               ELSE /\ a.arg_names = <<>>
                    /\ d.url = P.url
                    /\ d.arg_names = P.arg_names

(***************************************************************************)
(* C9 as claimed: a key of the bound group's mapping reads as the Endpoint *)
(* built at bind time; any name that is neither a key nor already held by  *)
(* the object fails with AttributeError, never returning a value.          *)
(***************************************************************************)
C9_EveryUnknownNameFails ==
    balast.item # "" =>
      LET bg == Deref(balast.bg)
      IN  /\ balast.item \in DOMAIN bg.endpoints =>
                /\ balast.out = "Endpoint"
                /\ balast.endpoint.api = bg.api
                /\ balast.endpoint.defn.name = balast.item
          /\ (balast.item \notin DOMAIN bg.endpoints /\ balast.out # "held") =>
                balast.out = "AttributeError"

(***************************************************************************)
(* C9 amended: a key of the mapping reads as the Endpoint built at bind    *)
(* time; a name that is neither a key, nor held by the object, nor an      *)
(* attribute of the group's class fails with AttributeError; a method of   *)
(* the group's class is returned as a partial and stored on the object.    *)
(***************************************************************************)
C9_UnknownNameFailsUnlessOnGroupClass ==
    balast.item # "" =>
      LET bg == Deref(balast.bg)
          unknown == balast.item \notin DOMAIN bg.endpoints /\ balast.out # "held"
      IN  /\ balast.item \in DOMAIN bg.endpoints =>
                /\ balast.out = "Endpoint"
                /\ balast.endpoint.api = bg.api
                /\ balast.endpoint.defn.name = balast.item
          /\ (unknown /\ balast.item \notin GroupClassCallables \cup GroupClassOthers) =>
                balast.out = "AttributeError"
          /\ (unknown /\ balast.item \in GroupClassCallables) =>
                balast.out = "partial" /\ balast.item \in bg.attrs

C9_Witness ==
    /\ balast.item = "get"
    /\ balast.out = "AttributeError"
    /\ "__get__" \in Deref(balast.bg).attrs
    /\ "retrieve" \in DOMAIN Deref(balast.bg).endpoints

(***************************************************************************)
(* endpoint.py: EndpointDefinition and Endpoint.__call__; api.py: ApiBase  *)
(* and JsonApiBase                                                         *)
(***************************************************************************)
\* The replacement fields "{name}" a url may carry, as single characters.
Brace ==
    [id |-> "{id}", schema |-> "{schema}", name |-> "{name}",
     database |-> "{database}", db |-> "{db}"]
IsPlaceholder(c) == \E n \in DOMAIN Brace : Brace[n] = c
FieldOf(c) == CHOOSE n \in DOMAIN Brace : Brace[n] = c

\* s.format(**kw): a field with no keyword is a KeyError; keywords that no
\* field names are ignored.
format(s, kw) ==
    IF \E i \in 1..Len(s) : IsPlaceholder(s[i]) /\ FieldOf(s[i]) \notin DOMAIN kw
    THEN [err |-> TRUE, s |-> <<>>]
    ELSE [err |-> FALSE,
          s |-> [i \in 1..Len(s) |-> IF IsPlaceholder(s[i]) THEN kw[FieldOf(s[i])] ELSE s[i]]]

EndpointDefinition(name, url, method, arg_names, default_query, response_model, body_model) ==
    [name |-> name, url |-> UrlField(url), response_model |-> response_model,
     body_model |-> body_model, method |-> method, arg_names |-> arg_names,
     default_query |-> default_query]

\* The endpoints declared on the tests' SampleApi, the retrieve action of
\* its "objects" group, and an endpoint whose one argument feeds both a
\* query entry and a field of the url.
TableQuery == [k \in {"database", "compact"} |-> IF k = "database" THEN None ELSE "true"]
DbQuery == [k \in {"database"} |-> None]
EndpointNames == {"ping", "put_object", "get_table", "retrieve", "get_db"}
DefOf(ep) ==
    CASE ep = "ping" ->
           EndpointDefinition("ping", RawStr(<<Sep, "ping">>), "GET", <<>>, EmptyMap, "Model", None)
      [] ep = "put_object" ->
           EndpointDefinition("put_object", RawStr(<<Sep, "object">>), "PUT", <<>>, EmptyMap,
                              None, "Model")
      [] ep = "get_table" ->
           EndpointDefinition("get_table",
                              RawStr(<<Sep, "table", Sep, "{schema}", Sep, "{name}">>), "GET",
                              <<"schema", "name", "database">>, TableQuery, None, None)
      [] ep = "retrieve" ->
           create_endpoint_definition(ActionRetrieve, Declared("objects").url, <<>>)
      [] ep = "get_db" ->
           EndpointDefinition("get_db", RawStr(<<Sep, "db", Sep, "{database}">>), "GET",
                              <<"database">>, DbQuery, None, None)

\* ApiBase(host=..., scheme=..., path_prefix=..., append_trailing_slash=...)
Conns == {1, 2}
ConnOf(c) ==
    IF c = 1
    THEN [flavour |-> "ApiBase", scheme |-> "https", host |-> "www.example.com",
          path_prefix |-> PathStr(<<>>), append_trailing_slash |-> FALSE]
    ELSE [flavour |-> "JsonApiBase", scheme |-> "https", host |-> "www.example.com",
          path_prefix |-> PathStr(<<Sep, "api", Sep>>), append_trailing_slash |-> TRUE]

\* ApiBase.get_headers
get_headers == EmptyMap

\* The arguments of a call.
ArgVals == {"u", "v"}
ArgSeqs == UNION {[1..k -> ArgVals] : k \in 0..MaxArgs}
KwNames == {"id", "schema", "name", "database"}
KwVal == [id |-> "5", schema |-> "my_schema", name |-> "my_table", database |-> "my_database"]
QueryKws ==
    {EmptyMap, [k \in {"compact"} |-> "false"], [k \in {"page"} |-> "1"],
     [k \in {"page"} |-> None]}
Bodies == {None, "good", "bad"}
Statuses == {199, 200, 299, 300, 399, 400, 500, 599, 600}

Min(a, b) == IF a <= b THEN a ELSE b

\* dict(zip(names, args))
Zip(names, args) ==
    LET n == Min(Len(names), Len(args))
    IN  [x \in {names[i] : i \in 1..n} |-> args[CHOOSE i \in 1..n : names[i] = x]]

NamesOf(defn) == {defn.arg_names[i] : i \in 1..Len(defn.arg_names)}

\* A slip of the count check: only too many positional arguments are refused.
resolve_args_too_many_only(defn, args, kwargs) ==
    IF Len(args) > Len(defn.arg_names)
    THEN [err |-> [kind |-> "ArgumentCount", at |-> "resolve", names |-> {}],
          url_args |-> EmptyMap]
    ELSE LET url_args == IF Len(args) > 0 THEN Zip(defn.arg_names, args)
                         ELSE [n \in NamesOf(defn) \cap kwargs |-> KwVal[n]]
             missing_args == NamesOf(defn) \ DOMAIN url_args
         IN  IF missing_args # {}
             THEN [err |-> [kind |-> "MissingArgument", at |-> "resolve", names |-> missing_args],
                   url_args |-> EmptyMap]
             ELSE [err |-> NoErr, url_args |-> url_args]

\* Endpoint.__call__, lines 38-54: url_args from the positional arguments,
\* else from the keywords; then the missing-argument check.
resolve_args(defn, args, kwargs) ==
    IF Len(args) > 0 /\ Len(args) # Len(defn.arg_names)
    THEN [err |-> [kind |-> "ArgumentCount", at |-> "resolve", names |-> {}],
          url_args |-> EmptyMap]
    ELSE LET url_args == IF Len(args) > 0 THEN Zip(defn.arg_names, args)
                         ELSE [n \in NamesOf(defn) \cap kwargs |-> KwVal[n]]
             missing_args == NamesOf(defn) \ DOMAIN url_args
         IN  IF missing_args # {}
             THEN [err |-> [kind |-> "MissingArgument", at |-> "resolve", names |-> missing_args],
                   url_args |-> EmptyMap]
             ELSE [err |-> NoErr, url_args |-> url_args]

\* Endpoint.__call__, lines 56-59: the query, and url_args less the
\* arguments popped into it.
build_query(defn, extra, url_args) ==
    LET m == dict_kw(defn.default_query, extra)
        unset == {k \in DOMAIN m.d : m.d[k] = None}
    IN  IF m.err
        THEN [err |-> [kind |-> "TypeError", at |-> "query", names |-> {}],
              query |-> EmptyMap, url_args |-> url_args]
        ELSE IF ~(unset \subseteq DOMAIN url_args)
        THEN [err |-> [kind |-> "KeyError", at |-> "query", names |-> unset \ DOMAIN url_args],
              query |-> EmptyMap, url_args |-> url_args]
        ELSE [err |-> NoErr,
              query |-> [k \in DOMAIN m.d |-> IF k \in unset THEN url_args[k] ELSE m.d[k]],
              url_args |-> [n \in (DOMAIN url_args) \ unset |-> url_args[n]]]

\* A slip of raise_for_status: only server errors raise.
raise_for_status_5xx_only(status) == 500 <= status /\ status < 600

\* requests.Response.raise_for_status: HTTPError for a client or server
\* error status.
raise_for_status(status) == 400 <= status /\ status < 600

\* ApiBase.process_response / JsonApiBase.process_response
process_response(conn, response) ==
    IF raise_for_status(response.status)
    THEN [err |-> [kind |-> "HTTPError", at |-> "process_response", names |-> {}], value |-> NoRes]
    ELSE IF conn.flavour = "JsonApiBase"
    THEN IF response.json
         THEN [err |-> NoErr, value |-> [kind |-> "json", status |-> response.status]]
         ELSE [err |-> [kind |-> "JSONDecodeError", at |-> "process_response", names |-> {}],
               value |-> NoRes]
    ELSE [err |-> NoErr, value |-> [kind |-> "Response", status |-> response.status]]

CallInputs ==
    {c \in [conn : Conns, ep : EndpointNames, args : ArgSeqs, kwargs : SUBSET KwNames,
            hasQuery : BOOLEAN, query : QueryKws, body : Bodies] :
       (~c.hasQuery) => c.query = EmptyMap}

CallInit ==
    /\ pa = NoPath /\ pb = NoPath /\ pc = NoPath
    /\ pleft = NoPath /\ pright = NoPath /\ pshown = {}
    /\ dicts = <<>> /\ reqs = <<>> /\ rlast = NoCall /\ rcalls = 0
    /\ idict = <<>> /\ bgs = <<>> /\ blast = NoRead /\ balast = NoAttr /\ installs = {}
    /\ tpc = <<>> /\ treq = <<>> /\ tlocal = <<>> /\ tret = <<>>
    /\ cin \in CallInputs
    /\ cpc = "start"
    /\ cerr = NoErr
    /\ cpool = EmptyMap
    /\ cquery = EmptyMap
    /\ creq = NoReq
    /\ cresp = NoResp
    /\ cres = NoRes
    /\ clog = <<>>

Raise(e) ==
    /\ cpc' = "raised"
    /\ cerr' = e

\* lines 38-54
ResolveArgs ==
    /\ cpc = "start"
    /\ LET r == resolve_args(DefOf(cin.ep), cin.args, cin.kwargs)
       IN  IF r.err # NoErr
           THEN Raise(r.err) /\ UNCHANGED <<cpool, clog>>
           ELSE /\ cpool' = r.url_args
                /\ cpc' = "resolved"
                /\ clog' = Append(clog, "resolve")
                /\ cerr' = cerr
    /\ UNCHANGED <<cin, cquery, creq, cresp, cres, notCallVars>>

\* lines 56-59
BuildQuery ==
    /\ cpc = "resolved"
    /\ LET r == build_query(DefOf(cin.ep), IF cin.hasQuery THEN cin.query ELSE EmptyMap, cpool)
       IN  IF r.err # NoErr
           THEN Raise(r.err) /\ UNCHANGED <<cpool, cquery, clog>>
           ELSE /\ cquery' = r.query
                /\ cpool' = r.url_args
                /\ cpc' = "query"
                /\ clog' = Append(clog, "query")
                /\ cerr' = cerr
    /\ UNCHANGED <<cin, creq, cresp, cres, notCallVars>>

\* lines 61-67: url = self.defn.url.format(**url_args); Request(...)
MakeRequest ==
    /\ cpc = "query"
    /\ LET defn == DefOf(cin.ep)
           f == format(defn.url.s, cpool)
       IN  IF f.err
           THEN /\ Raise([kind |-> "KeyError", at |-> "path", names |-> {}])
                /\ UNCHANGED <<creq, clog>>
           ELSE /\ creq' = [NoReq EXCEPT !.method = defn.method,
                                         !.path = UrlField(RawStr(f.s)),
                                         !.query = cquery]
                /\ cpc' = "request"
                /\ clog' = Append(clog, "path")
                /\ cerr' = cerr
    /\ UNCHANGED <<cin, cpool, cquery, cresp, cres, notCallVars>>

\* lines 69-72
AttachBody ==
    /\ cpc = "request"
    /\ LET defn == DefOf(cin.ep)
       IN  IF cin.body = None
           THEN /\ cpc' = "body"
                /\ clog' = Append(clog, "body")
                /\ UNCHANGED <<creq, cerr>>
           ELSE IF defn.body_model # None /\ cin.body = "bad"
           THEN /\ Raise([kind |-> "ValidationError", at |-> "body", names |-> {}])
                /\ UNCHANGED <<creq, clog>>
           ELSE /\ creq' = [creq EXCEPT !.body = IF defn.body_model # None THEN "json" ELSE cin.body]
                /\ cpc' = "body"
                /\ clog' = Append(clog, "body")
                /\ cerr' = cerr
    /\ UNCHANGED <<cin, cpool, cquery, cresp, cres, notCallVars>>

\* ApiBase.request, lines 44-51: the connection's defaults laid over the
\* request
ApiOverlay ==
    /\ cpc = "body"
    /\ LET conn == ConnOf(cin.conn)
           h == dict_kw(creq.headers, get_headers)
       IN  IF h.err
           THEN /\ Raise([kind |-> "TypeError", at |-> "overlay", names |-> {}])
                /\ UNCHANGED <<creq, clog>>
           ELSE /\ creq' = [creq EXCEPT !.scheme = conn.scheme,
                                        !.host = conn.host,
                                        !.path = Div(conn.path_prefix, creq.path),
                                        !.headers = h.d,
                                        !.append_trailing_slash = conn.append_trailing_slash]
                /\ cpc' = "overlaid"
                /\ clog' = Append(clog, "overlay")
                /\ cerr' = cerr
    /\ UNCHANGED <<cin, cpool, cquery, cresp, cres, notCallVars>>

\* A slip of ApiBase.request: the request is sent as the endpoint built it,
\* whether or not the connection's defaults were laid over it.
Dispatch_unoverlaid ==
    /\ cpc \in {"body", "overlaid"}
    /\ clog' = Append(clog, "dispatch")
    /\ \/ /\ \E st \in Statuses : \E js \in BOOLEAN : cresp' = [status |-> st, json |-> js]
          /\ cpc' = "sent"
          /\ cerr' = cerr
       \/ /\ Raise([kind |-> "ConnectionError", at |-> "dispatch", names |-> {}])
          /\ cresp' = cresp
    /\ UNCHANGED <<cin, cpool, cquery, creq, cres, notCallVars>>

\* request.call_with_requests(self.session): the transport answers with some
\* status and body, or fails.
Dispatch ==
    /\ cpc = "overlaid"
    /\ clog' = Append(clog, "dispatch")
    /\ \/ /\ \E st \in Statuses : \E js \in BOOLEAN : cresp' = [status |-> st, json |-> js]
          /\ cpc' = "sent"
          /\ cerr' = cerr
       \/ /\ Raise([kind |-> "ConnectionError", at |-> "dispatch", names |-> {}])
          /\ cresp' = cresp
    /\ UNCHANGED <<cin, cpool, cquery, creq, cres, notCallVars>>

\* self.process_response(response, request)
ProcessResponse ==
    /\ cpc = "sent"
    /\ LET r == process_response(ConnOf(cin.conn), cresp)
       IN  IF r.err # NoErr
           THEN Raise(r.err) /\ UNCHANGED <<cres, clog>>
           ELSE /\ cres' = r.value
                /\ cpc' = "processed"
                /\ clog' = Append(clog, "hook")
                /\ cerr' = cerr
    /\ UNCHANGED <<cin, cpool, cquery, creq, cresp, notCallVars>>

\* lines 75-79: the response model, when there is one, parses the value
\* (and may refuse it)
ApplySchema ==
    /\ cpc = "processed"
    /\ IF DefOf(cin.ep).response_model = None
       THEN /\ cpc' = "returned"
            /\ UNCHANGED <<cres, cerr, clog>>
       ELSE \/ /\ cres' = [cres EXCEPT !.kind = "model"]
               /\ cpc' = "returned"
               /\ clog' = Append(clog, "schema")
               /\ cerr' = cerr
            \/ /\ Raise([kind |-> "ValidationError", at |-> "schema", names |-> {}])
               /\ cres' = NoRes
               /\ clog' = Append(clog, "schema")
    /\ UNCHANGED <<cin, cpool, cquery, creq, cresp, notCallVars>>

CallNext ==
    \/ ResolveArgs
    \/ BuildQuery
    \/ MakeRequest
    \/ AttachBody
    \/ ApiOverlay
    \/ Dispatch
    \/ ProcessResponse
    \/ ApplySchema

SpecCall == CallInit /\ [][CallNext]_vars

Applied(step) == \E i \in 1..Len(clog) : clog[i] = step

\* C4: in every Endpoint call, one or more positional arguments whose count
\* differs from len(arg_names) fail the call with the Argument-Count error;
\* no positional argument and a name of arg_names absent from the keywords
\* fail it with the Missing-Argument error naming exactly the absent names;
\* arguments that resolve every name raise neither error.
C4_ArgumentErrors ==
    LET defn == DefOf(cin.ep)
        n == Len(defn.arg_names)
        absent == NamesOf(defn) \ cin.kwargs
    IN  cpc # "start" =>
          /\ (Len(cin.args) > 0 /\ Len(cin.args) # n) =>
               (cpc = "raised" /\ cerr.kind = "ArgumentCount")
          /\ (Len(cin.args) = 0 /\ absent # {}) =>
               (cpc = "raised" /\ cerr.kind = "MissingArgument" /\ cerr.names = absent)
          /\ ((Len(cin.args) > 0 /\ Len(cin.args) = n) \/ (Len(cin.args) = 0 /\ absent = {})) =>
               cerr.kind \notin {"ArgumentCount", "MissingArgument"}

C4_Witness ==
    /\ cin.ep = "get_table"
    /\ cin.args = <<>>
    /\ cin.kwargs = {"schema", "database"}
    /\ cpc = "raised"
    /\ cerr.kind = "MissingArgument"
    /\ cerr.names = {"name"}

\* C6: in an Endpoint call whose arguments resolve every name of arg_names,
\* the effective query is default_query overlaid with the caller's query
\* keyword (the caller's value winning on a shared key); each entry whose
\* value is unset takes the resolved argument of the same name, which leaves
\* the path-argument pool; entries with a set value keep it.
C6_QueryIsOverlayFilledFromArgs ==
    LET defn == DefOf(cin.ep)
        r == resolve_args(defn, cin.args, cin.kwargs)
        want == Overlay(defn.default_query, IF cin.hasQuery THEN cin.query ELSE EmptyMap)
        unset == {k \in DOMAIN want : want[k] = None}
    IN  (cpc \notin {"start", "resolved"} /\ r.err = NoErr /\ unset \subseteq DOMAIN r.url_args) =>
          /\ Applied("query")
          /\ cquery = [k \in DOMAIN want |-> IF k \in unset THEN r.url_args[k] ELSE want[k]]
          /\ cpool = [a \in (DOMAIN r.url_args) \ unset |-> r.url_args[a]]

HookRan ==
    \/ cpc \in {"processed", "returned"}
    \/ cpc = "raised" /\ cerr.at \in {"process_response", "schema"}

HookFailedOnStatus ==
    /\ cpc = "raised"
    /\ cerr.kind = "HTTPError"
    /\ cres = NoRes
    /\ ~Applied("schema")

HookPassedOn ==
    /\ cerr.kind # "HTTPError"
    /\ IF ConnOf(cin.conn).flavour = "JsonApiBase" /\ ~cresp.json
       THEN cpc = "raised" /\ cerr.kind = "JSONDecodeError"
       ELSE /\ Applied("hook")
            /\ cpc = "processed" =>
                 /\ cres.status = cresp.status
                 /\ cres.kind = IF ConnOf(cin.conn).flavour = "JsonApiBase" THEN "json" ELSE "Response"

\* C8 as stated: with the default response-processing hook, a response of
\* any status outside 200-299 fails the call with the HTTP-Status error, no
\* result and no schema applied; a status within 200-299 is passed on (the
\* JSON flavour decoding the body) with no HTTP-Status error.
C8_Non2xxFails ==
    HookRan =>
      /\ (cresp.status \notin 200..299) => HookFailedOnStatus
      /\ (cresp.status \in 200..299) => HookPassedOn

\* C8 amended: with the default response-processing hook, a response of any
\* status within 400-599 fails the call with the HTTP-Status error, no
\* result and no schema applied; a status within 200-299 is passed on (the
\* JSON flavour decoding the body) with no HTTP-Status error.
C8_ErrorStatusFails ==
    HookRan =>
      /\ (cresp.status \in 400..599) => HookFailedOnStatus
      /\ (cresp.status \in 200..299) => HookPassedOn

C8_Witness ==
    /\ cin.ep = "ping"
    /\ cresp.status = 400
    /\ cpc = "raised"
    /\ cerr.kind = "HTTPError"
    /\ cerr.at = "process_response"

ProtocolOrder ==
    <<"resolve", "query", "path", "body", "overlay", "dispatch", "hook", "schema">>

IsPrefix(s, u) == Len(s) <= Len(u) /\ \A i \in 1..Len(s) : s[i] = u[i]

\* The request as the connection's defaults leave it.
FinalSpec ==
    LET conn == ConnOf(cin.conn)
    IN  /\ creq.scheme = conn.scheme
        /\ creq.host = conn.host
        /\ creq.append_trailing_slash = conn.append_trailing_slash
        /\ creq.query = cquery
        /\ creq.method = DefOf(cin.ep).method

C11_State ==
    /\ IsPrefix(clog, ProtocolOrder)
    /\ Applied("dispatch") => FinalSpec
    /\ cerr.kind \in {"ArgumentCount", "MissingArgument"} => ~Applied("dispatch")
    /\ cpc = "returned" => (cerr = NoErr /\ cres # NoRes /\ Applied("hook"))
    /\ cpc = "raised" => (cerr # NoErr /\ cres = NoRes)
    /\ cpc \notin {"returned", "raised"} => cerr = NoErr

C11_Step ==
    /\ Applied("dispatch") => creq' = creq
    /\ cpc \in {"returned", "raised"} => UNCHANGED vars

\* C11: every Endpoint call follows the protocol order and dispatches at most
\* once: the transport is invoked only after argument resolution, query
\* building, path rendering, body serialization and the connection's overlay
\* have succeeded, with the one final request; a call failing with
\* Argument-Count or Missing-Argument dispatches nothing; the response schema
\* is applied only after the response hook returned; a call ends with one
\* result or with one error, never both.
C11_ProtocolOrderOneDispatch == [](C11_State) /\ [][C11_Step]_vars

C11_Witness ==
    /\ cpc = "returned"
    /\ clog = ProtocolOrder
    /\ cres.kind = "model"
    /\ cerr = NoErr

\* C12: in an Endpoint call where an unset query entry is filled from the
\* argument named k (which leaves the path-argument pool) and the url still
\* carries the placeholder {k}, the call fails with the Missing-Argument
\* error and nothing is dispatched.
C12_ConsumedPlaceholderIsMissingArgument ==
    LET defn == DefOf(cin.ep)
        r == resolve_args(defn, cin.args, cin.kwargs)
        consumed == (DOMAIN r.url_args) \ (DOMAIN cpool)
    IN  (/\ Applied("query")
         /\ cpc # "query"
         /\ \E k \in consumed :
              k \in DOMAIN Brace /\ \E i \in 1..Len(defn.url.s) : defn.url.s[i] = Brace[k]) =>
          /\ cpc = "raised"
          /\ cerr.kind = "MissingArgument"
          /\ ~Applied("dispatch")

====
